---- MODULE Spec2Model ----
(***************************************************************************)
(* State-machine model of contracts/EncryptedBikeSharing.sol.              *)
(*                                                                         *)
(* Every public function of the contract is one action.  A transaction     *)
(* that reverts leaves the contract storage and the event log untouched;   *)
(* the model records the call and its outcome (the revert reason, or "ok") *)
(* in the variable last, which is the only thing a reverted call changes.  *)
(*                                                                         *)
(* Strings are sequences of bytes.  An euint32 is modelled by what it      *)
(* decrypts to together with its "initialized" bit (FHE.isInitialized).    *)
(* The decryption oracle and FHE.checkSignatures are external: whether a   *)
(* proof verifies is an input of the callback, and so is the cleartext.    *)
(***************************************************************************)
EXTENDS Integers, Sequences, FiniteSets, TLC

\* ------------------------------------------------------------------ bounds
MaxRides == 2       \* submitEncryptedRide is called at most this often
MaxRequests == 2    \* FHE.requestDecryption is called at most this often

\* ----------------------------------------------------------------- strings
StrEmpty == << >>
StationA == <<65>>            \* "A"
StationB == <<66>>            \* "B"
CatCommuter == <<99>>         \* "c"
CatMember == <<109>>          \* "m"
Ts17 == <<49, 55>>            \* "17"
Ts1x == <<49, 120>>           \* "1x": a non-digit byte
Keys == {StationA, StationB}  \* the strings used as start station

\* keccak256(abi.encodePacked(station)) as uint256: injective, and (2^256
\* values) never one of the small sequential ride ids.
StationHash(s) ==
    CASE s = StationA -> 1001
      [] s = StationB -> 1002
      [] OTHER -> 1000

bytes32ToUint(b) == b

\* the keys of the ride mappings that a call can touch
RideIds == 0..MaxRides \cup {bytes32ToUint(StationHash(k)) : k \in Keys}
\* the request ids a callback is tried with; MaxRequests is never issued
ReqIds == 0..MaxRequests
\* the rideId arguments of requestRideDecryption: 0, the first and the last
\* id a submission can take, and the hash of a station name
RideIdArgs == {0, 1, MaxRides} \cup {bytes32ToUint(StationHash(StationA))}

\* ------------------------------------------------------------------ euint32
Uninitialized == [init |-> FALSE, val |-> 0]
asEuint32(n) == [init |-> TRUE, val |-> n]
isInitialized(h) == h.init
\* homomorphic addition; the bounds keep every sum far below 2^32
FHEadd(a, b) == [init |-> TRUE, val |-> a.val + b.val]

\* ------------------------------------------------------------- cleartexts
\* The bytes a callback carries, by what abi.decode makes of them.
StringsCt(v) == [kind |-> "strings", strs |-> v, num |-> 0]
Uint32Ct(n) == [kind |-> "uint32", strs |-> << >>, num |-> n]

Cleartexts ==
    { StringsCt(<<StationA, StationB, Ts17, CatCommuter>>),
      StringsCt(<<StationB, StationA, StrEmpty, CatMember>>),
      StringsCt(<<StationA, StationB, Ts1x, CatCommuter>>),
      Uint32Ct(1) }

\* abi.decode(cleartexts, (string[])): the array, or "fail" when the decoder
\* reverts.  The 32-byte encoding of the uint32 0 reads as an empty array;
\* any other uint32 encoding points outside the data.
DecodeStrings(ct) ==
    CASE ct.kind = "strings" -> [ok |-> TRUE, strs |-> ct.strs]
      [] ct.kind = "uint32" /\ ct.num = 0 -> [ok |-> TRUE, strs |-> << >>]
      [] OTHER -> [ok |-> FALSE, strs |-> << >>]

\* abi.decode(cleartexts, (uint32)): the first word, when it fits 32 bits.
\* The first word of an encoded string[] is the offset 32.
DecodeUint32(ct) ==
    CASE ct.kind = "uint32" -> [ok |-> TRUE, num |-> ct.num]
      [] ct.kind = "strings" -> [ok |-> TRUE, num |-> 32]
      [] OTHER -> [ok |-> FALSE, num |-> 0]

\* parseUint: -1 stands for the revert "Invalid character".
RECURSIVE parseUintFrom(_, _, _)
parseUintFrom(b, i, result) ==
    IF i > Len(b) THEN result
    ELSE IF ~(b[i] >= 48 /\ b[i] <= 57) THEN -1
    ELSE parseUintFrom(b, i + 1, result * 10 + (b[i] - 48))

parseUint(s) == parseUintFrom(s, 1, 0)

\* ------------------------------------------------------------------- state
VARIABLES
    rideCount,              \* uint256 rideCount
    encryptedRides,         \* mapping(uint256 => EncryptedRide)
    decryptedRides,         \* mapping(uint256 => DecryptedRide)
    encryptedStationCount,  \* mapping(string => euint32)
    stationList,            \* string[]
    requestToRideId,        \* mapping(uint256 => uint256)
    counterRequest,         \* the id FHE.requestDecryption hands out next
    requestSelector,        \* the callback selector each request was sent with
    rideSubmittedLog,       \* ids of the RideSubmitted events, in order
    decryptionRequestedLog, \* ids of the DecryptionRequested events, in order
    rideDecryptedCount,       \* number of RideDecrypted(id) events, by id
    rideDecryptedSince,     \* RideDecrypted(id) events since RideSubmitted(id)
    revealsOfKey,           \* RideDecrypted events by start station
    last                    \* the last call and its outcome

storage == <<rideCount, encryptedRides, decryptedRides, encryptedStationCount,
             stationList, requestToRideId>>
oracle == <<counterRequest, requestSelector>>
events == <<rideSubmittedLog, decryptionRequestedLog, rideDecryptedCount,
            rideDecryptedSince, revealsOfKey>>
vars == <<storage, oracle, events, last>>

\* the encrypted fields a rider submits: start, end, timestamp, category.
\* Every submission brings ciphertext handles of its own.
RideInputs ==
    { <<asEuint32(10 * rideCount + 1), asEuint32(10 * rideCount + 2),
        asEuint32(10 * rideCount + 3), asEuint32(10 * rideCount + 4)>> }

EmptyEncryptedRide ==
    [id |-> 0, encryptedStartStation |-> Uninitialized,
     encryptedEndStation |-> Uninitialized,
     encryptedTimestamp |-> Uninitialized,
     encryptedUserCategory |-> Uninitialized]

EmptyDecryptedRide ==
    [startStation |-> StrEmpty, endStation |-> StrEmpty, timestamp |-> 0,
     userCategory |-> StrEmpty, isRevealed |-> FALSE]

Call(op, req, ride, station, proof, outcome) ==
    [op |-> op, req |-> req, ride |-> ride, station |-> station,
     proof |-> proof, outcome |-> outcome]

Init ==
    /\ rideCount = 0
    /\ encryptedRides = [i \in RideIds |-> EmptyEncryptedRide]
    /\ decryptedRides = [i \in RideIds |-> EmptyDecryptedRide]
    /\ encryptedStationCount = [k \in Keys |-> Uninitialized]
    /\ stationList = << >>
    /\ requestToRideId = [r \in ReqIds |-> 0]
    /\ counterRequest = 0
    /\ requestSelector = [r \in ReqIds |-> "none"]
    /\ rideSubmittedLog = << >>
    /\ decryptionRequestedLog = << >>
    /\ rideDecryptedCount = [i \in RideIds |-> 0]
    /\ rideDecryptedSince = [i \in RideIds |-> 0]
    /\ revealsOfKey = [k \in Keys |-> 0]
    /\ last = Call("none", -1, -1, StrEmpty, FALSE, "ok")

\* the accounts a call can come from (msg.sender): the rider, who makes
\* every submission, and another account
Rider == "rider"
Callers == {Rider, "other"}

\* --------------------------------------------------------------- operations
Revert(call) ==
    /\ last' = call
    /\ UNCHANGED <<storage, oracle, events>>

\* mutant: every submission is stored under id 1
NewRideIdAlwaysFirst(count) == 1

\* mutant: the id is read before rideCount is incremented
NewRideIdBeforeIncrement(count) == count

\* the id a submission is stored under (rideCount += 1; newId = rideCount)
NewRideId(count) == count + 1

submitEncryptedRide(h) ==
    /\ rideCount < MaxRides
    /\ LET newId == NewRideId(rideCount) IN
        /\ rideCount' = rideCount + 1
        /\ encryptedRides' = [encryptedRides EXCEPT ![newId] =
               [id |-> newId, encryptedStartStation |-> h[1],
                encryptedEndStation |-> h[2], encryptedTimestamp |-> h[3],
                encryptedUserCategory |-> h[4]]]
        /\ decryptedRides' = [decryptedRides EXCEPT ![newId] = EmptyDecryptedRide]
        /\ rideSubmittedLog' = Append(rideSubmittedLog, newId)
        /\ rideDecryptedSince' = [rideDecryptedSince EXCEPT ![newId] = 0]
        /\ last' = Call("submitEncryptedRide", -1, newId, StrEmpty, FALSE, "ok")
    /\ UNCHANGED <<encryptedStationCount, stationList, requestToRideId, oracle,
                   decryptionRequestedLog, rideDecryptedCount, revealsOfKey>>

\* modifier onlyRider(rideId): a placeholder whose body is "_;" alone, so it
\* lets every msg.sender through.
onlyRider(sender, rideId) == TRUE

\* mutant: requestRideDecryption without require(!isRevealed)
requestRideDecryptionNoCheck(sender, rideId) ==
    /\ counterRequest < MaxRequests
    /\ LET reqId == counterRequest IN
        /\ counterRequest' = counterRequest + 1
        /\ requestSelector' = [requestSelector EXCEPT ![reqId] = "decryptRide"]
        /\ requestToRideId' = [requestToRideId EXCEPT ![reqId] = rideId]
        /\ decryptionRequestedLog' = Append(decryptionRequestedLog, rideId)
        /\ last' = Call("requestRideDecryption", reqId, rideId, StrEmpty,
                        FALSE, "ok")
        /\ UNCHANGED <<rideCount, encryptedRides, decryptedRides,
                       encryptedStationCount, stationList, rideSubmittedLog,
                       rideDecryptedCount, rideDecryptedSince, revealsOfKey>>

requestRideDecryption(sender, rideId) ==
    /\ counterRequest < MaxRequests
    /\ onlyRider(sender, rideId)
    /\ IF decryptedRides[rideId].isRevealed
       THEN Revert(Call("requestRideDecryption", -1, rideId, StrEmpty, FALSE,
                        "Already decrypted"))
       ELSE LET reqId == counterRequest IN
            /\ counterRequest' = counterRequest + 1
            /\ requestSelector' = [requestSelector EXCEPT ![reqId] = "decryptRide"]
            /\ requestToRideId' = [requestToRideId EXCEPT ![reqId] = rideId]
            /\ decryptionRequestedLog' = Append(decryptionRequestedLog, rideId)
            /\ last' = Call("requestRideDecryption", reqId, rideId, StrEmpty,
                            FALSE, "ok")
            /\ UNCHANGED <<rideCount, encryptedRides, decryptedRides,
                           encryptedStationCount, stationList, rideSubmittedLog,
                           rideDecryptedCount, rideDecryptedSince, revealsOfKey>>

\* mutant: decryptRide without require(!dRide.isRevealed)
RideOutcomeNoRevealedGuard(requestId, ct, proof) ==
    LET rideId == requestToRideId[requestId]
        dec == DecodeStrings(ct)
        results == dec.strs
    IN  IF rideId = 0 THEN "Invalid request"
        ELSE IF ~proof THEN "InvalidProof"
        ELSE IF ~dec.ok THEN "DecodeError"
        ELSE IF Len(results) < 3 THEN "Panic"
        ELSE IF parseUint(results[3]) < 0 THEN "Invalid character"
        ELSE IF Len(results) < 4 THEN "Panic"
        ELSE "ok"

\* mutant: the revealed guard is evaluated after the proof and the decoding
RideOutcomeRevealedGuardLast(requestId, ct, proof) ==
    LET rideId == requestToRideId[requestId]
        dec == DecodeStrings(ct)
        results == dec.strs
    IN  IF rideId = 0 THEN "Invalid request"
        ELSE IF ~proof THEN "InvalidProof"
        ELSE IF ~dec.ok THEN "DecodeError"
        ELSE IF Len(results) < 3 THEN "Panic"
        ELSE IF parseUint(results[3]) < 0 THEN "Invalid character"
        ELSE IF Len(results) < 4 THEN "Panic"
        ELSE IF decryptedRides[rideId].isRevealed THEN "Already decrypted"
        ELSE "ok"

\* mutant: decryptRide without require(rideId != 0)
RideOutcomeNoRequestGuard(requestId, ct, proof) ==
    LET rideId == requestToRideId[requestId]
        dec == DecodeStrings(ct)
        results == dec.strs
    IN  IF decryptedRides[rideId].isRevealed THEN "Already decrypted"
        ELSE IF ~proof THEN "InvalidProof"
        ELSE IF ~dec.ok THEN "DecodeError"
        ELSE IF Len(results) < 3 THEN "Panic"
        ELSE IF parseUint(results[3]) < 0 THEN "Invalid character"
        ELSE IF Len(results) < 4 THEN "Panic"
        ELSE "ok"

\* mutant: the signatures of the callback are not checked
RideOutcomeNoProofCheck(requestId, ct, proof) ==
    LET rideId == requestToRideId[requestId]
        dec == DecodeStrings(ct)
        results == dec.strs
    IN  IF rideId = 0 THEN "Invalid request"
        ELSE IF decryptedRides[rideId].isRevealed THEN "Already decrypted"
        ELSE IF ~dec.ok THEN "DecodeError"
        ELSE IF Len(results) < 3 THEN "Panic"
        ELSE IF parseUint(results[3]) < 0 THEN "Invalid character"
        ELSE IF Len(results) < 4 THEN "Panic"
        ELSE "ok"

\* mutant: only the callback of the first request is accepted
RideOutcomeFirstOnly(requestId, ct, proof) ==
    LET rideId == requestToRideId[requestId]
        dec == DecodeStrings(ct)
        results == dec.strs
    IN  IF rideId = 0 \/ requestId # 0 THEN "Invalid request"
        ELSE IF decryptedRides[rideId].isRevealed THEN "Already decrypted"
        ELSE IF ~proof THEN "InvalidProof"
        ELSE IF ~dec.ok THEN "DecodeError"
        ELSE IF Len(results) < 3 THEN "Panic"
        ELSE IF parseUint(results[3]) < 0 THEN "Invalid character"
        ELSE IF Len(results) < 4 THEN "Panic"
        ELSE "ok"

\* mutant: only the callback of the latest request is accepted
RideOutcomeLatestOnly(requestId, ct, proof) ==
    LET rideId == requestToRideId[requestId]
        dec == DecodeStrings(ct)
        results == dec.strs
    IN  IF rideId = 0 \/ requestId # counterRequest - 1 THEN "Invalid request"
        ELSE IF decryptedRides[rideId].isRevealed THEN "Already decrypted"
        ELSE IF ~proof THEN "InvalidProof"
        ELSE IF ~dec.ok THEN "DecodeError"
        ELSE IF Len(results) < 3 THEN "Panic"
        ELSE IF parseUint(results[3]) < 0 THEN "Invalid character"
        ELSE IF Len(results) < 4 THEN "Panic"
        ELSE "ok"

\* The guards of decryptRide in the order the code evaluates them.
RideOutcome(requestId, ct, proof) ==
    LET rideId == requestToRideId[requestId]
        dec == DecodeStrings(ct)
        results == dec.strs
    IN  IF rideId = 0 THEN "Invalid request"
        ELSE IF decryptedRides[rideId].isRevealed THEN "Already decrypted"
        ELSE IF ~proof THEN "InvalidProof"
        ELSE IF ~dec.ok THEN "DecodeError"
        ELSE IF Len(results) < 3 THEN "Panic"
        ELSE IF parseUint(results[3]) < 0 THEN "Invalid character"
        ELSE IF Len(results) < 4 THEN "Panic"
        ELSE "ok"

\* mutant: the counter is set to zero on every reveal, not only the first
CountAfterRevealAlwaysReset(count) == FHEadd(asEuint32(0), asEuint32(1))

\* mutant: the key is pushed on every reveal
ListAfterRevealAlwaysPush(list, count, station) == Append(list, station)

\* mutant: the key is pushed when its counter is already initialized
ListAfterRevealPushKnown(list, count, station) ==
    IF isInitialized(count) THEN Append(list, station) ELSE list

\* mutant: a new key is inserted at the front of the list
ListAfterRevealPushFront(list, count, station) ==
    IF ~isInitialized(count) THEN <<station>> \o list ELSE list

\* Lines 110-118: register the key on first use, then add one.
CountAfterReveal(count) ==
    FHEadd(IF ~isInitialized(count) THEN asEuint32(0) ELSE count, asEuint32(1))

ListAfterReveal(list, count, station) ==
    IF ~isInitialized(count) THEN Append(list, station) ELSE list

\* mutant: end station and start station are stored in each other's field
RevealedRideSwapped(results) ==
    [startStation |-> results[2], endStation |-> results[1],
     timestamp |-> parseUint(results[3]),
     userCategory |-> results[4], isRevealed |-> TRUE]

\* Lines 104-108: the revealed record, in handle order.
RevealedRide(results) ==
    [startStation |-> results[1], endStation |-> results[2],
     timestamp |-> parseUint(results[3]),
     userCategory |-> results[4], isRevealed |-> TRUE]

\* mutant: the cleartext is written to the latest ride, not the request's
RevealEffectLatestRide(rides, counts, list, rideId, results) ==
    LET station == results[1] IN
    [rides |-> [rides EXCEPT ![rideCount] = RevealedRide(results)],
     counts |-> [counts EXCEPT ![station] = CountAfterReveal(counts[station])],
     list |-> ListAfterReveal(list, counts[station], station)]

\* Lines 104-118: what a successful decryptRide writes, as a function of
\* the three mappings it touches.
RevealEffect(rides, counts, list, rideId, results) ==
    LET station == results[1] IN
    [rides |-> [rides EXCEPT ![rideId] = RevealedRide(results)],
     counts |-> [counts EXCEPT ![station] = CountAfterReveal(counts[station])],
     list |-> ListAfterReveal(list, counts[station], station)]

decryptRide(requestId, ct, proof) ==
    LET rideId == requestToRideId[requestId]
        outcome == RideOutcome(requestId, ct, proof)
        call == Call("decryptRide", requestId, rideId, StrEmpty, proof, outcome)
    IN  IF outcome # "ok" THEN Revert(call)
        ELSE LET results == DecodeStrings(ct).strs
                 station == results[1]
                 after == RevealEffect(decryptedRides, encryptedStationCount,
                                       stationList, rideId, results)
             IN
             /\ decryptedRides' = after.rides
             /\ stationList' = after.list
             /\ encryptedStationCount' = after.counts
             /\ rideDecryptedSince' = [rideDecryptedSince EXCEPT
                    ![rideId] = @ + 1]
             /\ revealsOfKey' = [revealsOfKey EXCEPT ![station] = @ + 1]
             /\ rideDecryptedCount' = [rideDecryptedCount EXCEPT ![rideId] = @ + 1]
             /\ last' = call
             /\ UNCHANGED <<rideCount, encryptedRides, requestToRideId, oracle,
                            rideSubmittedLog, decryptionRequestedLog>>

\* mutant: requestStationCountDecryption without the isInitialized require
requestStationCountDecryptionNoCheck(station) ==
    /\ counterRequest < MaxRequests
    /\ LET reqId == counterRequest IN
        /\ counterRequest' = counterRequest + 1
        /\ requestSelector' = [requestSelector EXCEPT
               ![reqId] = "decryptStationCount"]
        /\ requestToRideId' = [requestToRideId EXCEPT
               ![reqId] = bytes32ToUint(StationHash(station))]
        /\ last' = Call("requestStationCountDecryption", reqId, -1, station,
                        FALSE, "ok")
        /\ UNCHANGED <<rideCount, encryptedRides, decryptedRides,
                       encryptedStationCount, stationList, events>>

requestStationCountDecryption(station) ==
    /\ counterRequest < MaxRequests
    /\ LET count == encryptedStationCount[station] IN
       IF ~isInitialized(count)
       THEN Revert(Call("requestStationCountDecryption", -1, -1, station, FALSE,
                        "Station not found"))
       ELSE LET reqId == counterRequest IN
            /\ counterRequest' = counterRequest + 1
            /\ requestSelector' = [requestSelector EXCEPT
                   ![reqId] = "decryptStationCount"]
            /\ requestToRideId' = [requestToRideId EXCEPT
                   ![reqId] = bytes32ToUint(StationHash(station))]
            /\ last' = Call("requestStationCountDecryption", reqId, -1, station,
                            FALSE, "ok")
            /\ UNCHANGED <<rideCount, encryptedRides, decryptedRides,
                           encryptedStationCount, stationList, events>>

\* getStationFromHash: the first listed station with that hash, or "revert".
RECURSIVE getStationFromHashAt(_, _)
getStationFromHashAt(hash, i) ==
    IF i > Len(stationList) THEN [found |-> FALSE, station |-> StrEmpty]
    ELSE IF bytes32ToUint(StationHash(stationList[i])) = hash
         THEN [found |-> TRUE, station |-> stationList[i]]
         ELSE getStationFromHashAt(hash, i + 1)

getStationFromHash(hash) == getStationFromHashAt(hash, 1)

StationOutcome(requestId, ct, proof) ==
    LET stationHash == requestToRideId[requestId] IN
    IF ~getStationFromHash(stationHash).found THEN "Station not found"
    ELSE IF ~proof THEN "InvalidProof"
    ELSE IF ~DecodeUint32(ct).ok THEN "DecodeError"
    ELSE "ok"

decryptStationCount(requestId, ct, proof) ==
    LET stationHash == requestToRideId[requestId]
        outcome == StationOutcome(requestId, ct, proof)
    IN  /\ last' = Call("decryptStationCount", requestId, -1,
                        getStationFromHash(stationHash).station, proof, outcome)
        /\ UNCHANGED <<storage, oracle, events>>

\* The view functions: they return what storage holds and write nothing.  The
\* call record of a view keeps the function only.
getDecryptedRide(rideId) ==
    /\ last' = Call("getDecryptedRide", -1, -1, StrEmpty, FALSE, "ok")
    /\ UNCHANGED <<storage, oracle, events>>

getEncryptedStationCount(station) ==
    /\ last' = Call("getEncryptedStationCount", -1, -1, StrEmpty, FALSE, "ok")
    /\ UNCHANGED <<storage, oracle, events>>

\* what a callback is called with: every cleartext with a proof that
\* verifies, and one with a proof that does not
CallbackInputs ==
    {<<ct, TRUE>> : ct \in Cleartexts}
        \cup {<<StringsCt(<<StationA, StationB, Ts17, CatCommuter>>), FALSE>>}

Next ==
    \/ \E h \in RideInputs : submitEncryptedRide(h)
    \/ \E sender \in Callers, rideId \in RideIdArgs :
           requestRideDecryption(sender, rideId)
    \/ \E requestId \in ReqIds, in \in CallbackInputs :
           decryptRide(requestId, in[1], in[2])
    \/ \E station \in Keys : requestStationCountDecryption(station)
    \/ \E requestId \in ReqIds, in \in CallbackInputs :
           decryptStationCount(requestId, in[1], in[2])
    \/ \E rideId \in RideIdArgs : getDecryptedRide(rideId)
    \/ \E station \in Keys : getEncryptedStationCount(station)

Spec == Init /\ [][Next]_vars

\* ------------------------------------------------------------------ claims
Unchanged == UNCHANGED <<storage, oracle, events>>
Submitted(r) == r \in 1..rideCount
Issued(req) == req < counterRequest
IsCallback(call) == call.op \in {"decryptRide", "decryptStationCount"}
Occurrences(list, s) == Cardinality({i \in 1..Len(list) : list[i] = s})

\* C1: a record is unrevealed right after submitEncryptedRide creates it; its
\* revealed flag is set only by a successful decryptRide callback that targets
\* it, a callback on a revealed record is never applied, and a revealed
\* record has had exactly one callback applied since it was submitted.
C1_RevealedByExactlyOneCallback ==
    [][ /\ (last'.op = "submitEncryptedRide")
            => ~decryptedRides'[last'.ride].isRevealed
        /\ \A r \in RideIds :
            /\ decryptedRides'[r].isRevealed => rideDecryptedSince'[r] = 1
            /\ (~decryptedRides[r].isRevealed /\ decryptedRides'[r].isRevealed)
                => (/\ last'.op = "decryptRide"
                    /\ last'.outcome = "ok"
                    /\ last'.proof
                    /\ last'.ride = r)
            /\ (/\ decryptedRides[r].isRevealed
                /\ last'.op = "decryptRide"
                /\ last'.ride = r)
                => (last'.outcome # "ok" /\ rideDecryptedSince'[r] = 1)
      ]_vars

C1_Witness ==
    /\ last.op = "decryptRide"
    /\ last.outcome = "ok"
    /\ Submitted(last.ride)
    /\ decryptedRides[last.ride].isRevealed
    /\ rideDecryptedSince[last.ride] = 1

\* C2 (as claimed): once a record's revealed flag is true, the flag and the
\* revealed fields never change again, whatever is called afterwards.
C2_RevealedRecordNeverChanges ==
    [][ \A r \in RideIds :
            decryptedRides[r].isRevealed
                => decryptedRides'[r] = decryptedRides[r] ]_vars

\* C3: a callback with a valid proof whose request resolves to an already
\* revealed record fails with "Already decrypted" and changes nothing: the
\* fields stay those of the first callback, the counter is not incremented
\* again, and the request of the rejected callback still resolves to the
\* record (it is not marked fulfilled).
C3_SecondRevealRejected ==
    [][ (/\ last'.op = "decryptRide"
         /\ last'.proof
         /\ last'.ride # 0
         /\ decryptedRides[last'.ride].isRevealed)
            => (/\ last'.outcome = "Already decrypted"
                /\ Unchanged
                /\ requestToRideId'[last'.req] = last'.ride) ]_vars

C3_Witness ==
    /\ last.op = "decryptRide"
    /\ last.outcome = "Already decrypted"
    /\ last.proof
    /\ Submitted(last.ride)
    /\ \E other \in ReqIds :
        /\ other # last.req
        /\ Issued(other) /\ Issued(last.req)
        /\ requestToRideId[other] = last.ride
    /\ decryptedRides[last.ride].isRevealed
    /\ encryptedStationCount[decryptedRides[last.ride].startStation].val = 1

\* C4: a callback with a request id that no decryption request has issued is
\* rejected and changes no record, counter, registry or pending request.
C4_UnknownRequestRejected ==
    [][ (IsCallback(last') /\ ~Issued(last'.req))
            => (/\ last'.outcome =
                     IF last'.op = "decryptRide" THEN "Invalid request"
                     ELSE "Station not found"
                /\ Unchanged) ]_vars

C4_Witness ==
    /\ last.op = "decryptRide"
    /\ ~Issued(last.req)
    /\ last.proof
    /\ last.outcome = "Invalid request"
    /\ rideCount > 0
    /\ counterRequest > 0
    /\ stationList # << >>

\* C5 (as claimed, for a record callback on a request that was issued for a
\* submitted record): when the proof does not verify the outcome is
\* InvalidProof and nothing changes, whether the record is revealed or not.
C5_BadProofIsInvalidProof ==
    [][ (/\ last'.op = "decryptRide"
         /\ Issued(last'.req)
         /\ requestSelector[last'.req] = "decryptRide"
         /\ Submitted(last'.ride)
         /\ ~last'.proof)
            => (last'.outcome = "InvalidProof" /\ Unchanged) ]_vars

\* C6: the counter of a key decrypts to the number of successful reveals
\* whose start station is that key (and is uninitialized before the first).
C6_CounterCountsReveals ==
    \A k \in Keys :
        IF revealsOfKey[k] = 0
        THEN ~isInitialized(encryptedStationCount[k])
        ELSE /\ isInitialized(encryptedStationCount[k])
             /\ encryptedStationCount[k].val = revealsOfKey[k]

C6_Witness ==
    /\ revealsOfKey[StationA] = 2
    /\ revealsOfKey[StationB] = 1
    /\ encryptedStationCount[StationA].val = 2

\* C7 (as claimed): replaying a record callback right after it was applied,
\* with the same request id and a valid proof, is rejected with
\* "Invalid request" (the request no longer resolves) and changes nothing.
C7_ReplayIsUnknownRequest ==
    [][ (/\ last.op = "decryptRide" /\ last.outcome = "ok"
         /\ last'.op = "decryptRide" /\ last'.req = last.req /\ last'.proof)
            => (/\ last'.outcome = "Invalid request"
                /\ requestToRideId'[last'.req] = 0
                /\ Unchanged) ]_vars

\* C8 (as claimed): a callback is applied only to the target its request was
\* registered for: decryptRide on a request issued by
\* requestStationCountDecryption changes no record, counter or registry, and
\* decryptStationCount on a request issued by requestRideDecryption resolves
\* to no station.
C8_RoutingUnambiguous ==
    [][ /\ (/\ last'.op = "decryptRide"
            /\ requestSelector[last'.req] = "decryptStationCount")
            => UNCHANGED <<decryptedRides, encryptedStationCount, stationList>>
        /\ (/\ last'.op = "decryptStationCount"
            /\ requestSelector[last'.req] = "decryptRide")
            => last'.outcome = "Station not found" ]_vars

\* C9: the registry holds every key at most once.
C9_RegistryHasNoDuplicates ==
    \A k \in Keys : Occurrences(stationList, k) <= 1

C9_Witness ==
    /\ revealsOfKey[StationA] >= 2
    /\ Occurrences(stationList, StationA) = 1
    /\ last.op = "decryptRide" /\ last.outcome = "ok"
    /\ decryptedRides[last.ride].startStation = StationA

\* C10: the k-th submission gets id k; rideCount is the number of
\* submissions; exactly the ids 1..rideCount hold an encrypted record, each
\* stored under its own id; and a submission creates the empty, unrevealed
\* revealed-record entry of its id in the same step.
C10_SequentialIds ==
    [][ /\ rideCount' = Len(rideSubmittedLog')
        /\ \A k \in 1..Len(rideSubmittedLog') : rideSubmittedLog'[k] = k
        /\ \A i \in RideIds :
            IF i \in 1..rideCount'
            THEN /\ encryptedRides'[i].id = i
                 /\ isInitialized(encryptedRides'[i].encryptedStartStation)
            ELSE encryptedRides'[i] = EmptyEncryptedRide
        /\ (last'.op = "submitEncryptedRide")
            => (/\ last'.ride = rideCount'
                /\ last'.ride > 0
                /\ rideCount' = rideCount + 1
                /\ encryptedRides[last'.ride] = EmptyEncryptedRide
                /\ decryptedRides'[last'.ride] = EmptyDecryptedRide) ]_vars

C10_Witness ==
    /\ last.op = "submitEncryptedRide"
    /\ last.ride = 2
    /\ rideCount = 2
    /\ rideSubmittedLog = <<1, 2>>
    /\ encryptedRides[2].id = 2
    /\ decryptedRides[2] = EmptyDecryptedRide

Range(list) == {list[i] : i \in 1..Len(list)}

\* C11: for two pending requests on different records and any two cleartexts
\* a valid callback is accepted with, either arrival order is accepted in
\* full, writes each cleartext to its own request's record and to no other,
\* and ends with the same records, the same counters and the same set of
\* registered keys.
C11_ArrivalOrderIrrelevant ==
    \A q1, q2 \in ReqIds, c1, c2 \in Cleartexts :
        LET r1 == requestToRideId[q1]
            r2 == requestToRideId[q2]
        IN  (/\ Issued(q1) /\ Issued(q2)
             /\ r1 # r2
             /\ RideOutcome(q1, c1, TRUE) = "ok"
             /\ RideOutcome(q2, c2, TRUE) = "ok")
            => LET res1 == DecodeStrings(c1).strs
                   res2 == DecodeStrings(c2).strs
                   a == RevealEffect(decryptedRides, encryptedStationCount,
                                     stationList, r1, res1)
                   ab == RevealEffect(a.rides, a.counts, a.list, r2, res2)
                   b == RevealEffect(decryptedRides, encryptedStationCount,
                                     stationList, r2, res2)
                   ba == RevealEffect(b.rides, b.counts, b.list, r1, res1)
               IN  /\ ~a.rides[r2].isRevealed
                   /\ ~b.rides[r1].isRevealed
                   /\ ab.rides[r1].isRevealed /\ ab.rides[r2].isRevealed
                   /\ ab.rides[r1].startStation = res1[1]
                   /\ ab.rides[r1].userCategory = res1[4]
                   /\ ab.rides[r2].startStation = res2[1]
                   /\ ab.rides[r2].userCategory = res2[4]
                   /\ \A r \in RideIds \ {r1, r2} :
                        ab.rides[r] = decryptedRides[r]
                   /\ ab.rides = ba.rides
                   /\ ab.counts = ba.counts
                   /\ Range(ab.list) = Range(ba.list)

\* the later request was answered first while the earlier one, on another
\* submitted record, is still pending
C11_Witness ==
    /\ last.op = "decryptRide" /\ last.outcome = "ok"
    /\ last.req = 1
    /\ Submitted(requestToRideId[0]) /\ Submitted(requestToRideId[1])
    /\ requestToRideId[0] # requestToRideId[1]
    /\ requestSelector[0] = "decryptRide" /\ requestSelector[1] = "decryptRide"
    /\ ~decryptedRides[requestToRideId[0]].isRevealed
    /\ decryptedRides[requestToRideId[1]].isRevealed
    /\ rideDecryptedSince[requestToRideId[0]] = 0

\* a cleartext that decodes to four strings, the third a decimal number
WellFormed(ct) ==
    /\ DecodeStrings(ct).ok
    /\ Len(DecodeStrings(ct).strs) = 4
    /\ \A i \in 1..Len(DecodeStrings(ct).strs[3]) :
        DecodeStrings(ct).strs[3][i] \in 48..57

\* C12: whatever requests are pending and unanswered, a submission is
\* accepted and stores a record, a decryption request on an unrevealed
\* record or a registered key is accepted and registers a pending request,
\* and a valid callback with a well-formed cleartext for any pending request
\* on an unrevealed record is accepted.
C12_PendingRequestsBlockNothing ==
    [][ /\ (last'.op = "submitEncryptedRide")
            => (/\ last'.outcome = "ok"
                /\ rideCount' = rideCount + 1
                /\ encryptedRides'[last'.ride].id = last'.ride)
        /\ (/\ last'.op = "requestRideDecryption"
            /\ ~decryptedRides[last'.ride].isRevealed)
            => (/\ last'.outcome = "ok"
                /\ last'.req = counterRequest
                /\ counterRequest' = counterRequest + 1
                /\ requestToRideId'[last'.req] = last'.ride)
        /\ (/\ last'.op = "requestStationCountDecryption"
            /\ isInitialized(encryptedStationCount[last'.station]))
            => (/\ last'.outcome = "ok"
                /\ counterRequest' = counterRequest + 1
                /\ requestToRideId'[last'.req] = StationHash(last'.station))
        /\ \A q \in ReqIds, ct \in Cleartexts :
            (/\ Issued(q)
             /\ requestToRideId[q] # 0
             /\ ~decryptedRides[requestToRideId[q]].isRevealed
             /\ WellFormed(ct))
            => RideOutcome(q, ct, TRUE) = "ok"
        /\ (/\ last'.op = "decryptRide"
            /\ last'.outcome = "ok")
            => decryptedRides'[last'.ride].isRevealed ]_vars

\* a second request was accepted while the first, on a submitted record, is
\* still unanswered
C12_Witness ==
    /\ last.op = "requestRideDecryption" /\ last.outcome = "ok"
    /\ last.req = 1
    /\ requestSelector[0] = "decryptRide"
    /\ Submitted(requestToRideId[0])
    /\ ~decryptedRides[requestToRideId[0]].isRevealed
    /\ rideDecryptedSince[requestToRideId[0]] = 0
    /\ rideCount = 2

\* C13: the counters and the registry change only in a step of decryptRide
\* that succeeds with verified signatures; submitEncryptedRide, both request
\* functions, decryptStationCount, the getters and every rejected callback
\* leave all counters and the registry as they were.
C13_AggregatesChangeOnlyInVerifiedCallback ==
    [][ /\ (encryptedStationCount' # encryptedStationCount
            \/ stationList' # stationList)
            => (/\ last'.op = "decryptRide"
                /\ last'.outcome = "ok"
                /\ last'.proof)
        /\ (\/ last'.op \in {"submitEncryptedRide", "requestRideDecryption",
                             "requestStationCountDecryption",
                             "decryptStationCount", "getDecryptedRide",
                             "getEncryptedStationCount"}
            \/ (IsCallback(last') /\ last'.outcome # "ok"))
            => (/\ encryptedStationCount' = encryptedStationCount
                /\ stationList' = stationList) ]_vars

\* an aggregate callback succeeded on a registered key and left its counter
C13_Witness ==
    /\ last.op = "decryptStationCount" /\ last.outcome = "ok"
    /\ stationList = <<StationA>>
    /\ encryptedStationCount[StationA] = asEuint32(1)

\* a string that is not a decimal number: empty, or with a byte outside
\* '0'..'9'
Malformed(s) == Len(s) = 0 \/ \E i \in 1..Len(s) : s[i] \notin 48..57

\* C14: a decryptRide callback with verified signatures whose timestamp
\* string is not a decimal number reverts: the record stays unrevealed with
\* empty fields and no counter and no registry entry changes.
C14_MalformedTimestampRejected ==
    [][ \A q \in ReqIds, ct \in Cleartexts :
          (/\ decryptRide(q, ct, TRUE)
           /\ Submitted(requestToRideId[q])
           /\ ~decryptedRides[requestToRideId[q]].isRevealed
           /\ DecodeStrings(ct).ok
           /\ Len(DecodeStrings(ct).strs) >= 3
           /\ Malformed(DecodeStrings(ct).strs[3]))
          => (/\ last'.outcome \notin {"ok"}
              /\ ~decryptedRides'[requestToRideId[q]].isRevealed
              /\ decryptedRides' = decryptedRides
              /\ encryptedStationCount' = encryptedStationCount
              /\ stationList' = stationList) ]_vars

\* C15: a decryptRide callback that succeeds for a request on record r with
\* cleartext (s, e, t, c) sets the fields of r to start s, end e, timestamp
\* the value of t and category c, sets its revealed flag, adds exactly one to
\* the counter of s (appending s to the registry first when its counter was
\* uninitialized), and leaves every other record and counter unchanged.
C15_CallbackSetsExactlyItsRecord ==
    [][ \A q \in ReqIds, ct \in Cleartexts :
          (/\ last'.op = "decryptRide"
           /\ last'.outcome = "ok"
           /\ last'.req = q
           /\ decryptRide(q, ct, TRUE))
          => LET r == requestToRideId[q]
                 res == DecodeStrings(ct).strs
                 old == encryptedStationCount[res[1]]
             IN  /\ ~decryptedRides[r].isRevealed
                 /\ decryptedRides'[r].startStation = res[1]
                 /\ decryptedRides'[r].endStation = res[2]
                 /\ decryptedRides'[r].timestamp = parseUint(res[3])
                 /\ (res[3] = Ts17) => (decryptedRides'[r].timestamp = 17)
                 /\ decryptedRides'[r].userCategory = res[4]
                 /\ decryptedRides'[r].isRevealed
                 /\ \A o \in RideIds \ {r} :
                        decryptedRides'[o] = decryptedRides[o]
                 /\ encryptedStationCount'[res[1]] =
                        asEuint32(IF isInitialized(old) THEN old.val + 1 ELSE 1)
                 /\ \A k \in Keys \ {res[1]} :
                        encryptedStationCount'[k] = encryptedStationCount[k]
                 /\ stationList' = IF isInitialized(old) THEN stationList
                                    ELSE Append(stationList, res[1])
                 /\ encryptedRides' = encryptedRides
                 /\ rideCount' = rideCount ]_vars

\* record 1 was just revealed from ("A", "B", "17", commuter) while record 2
\* stays unrevealed
C15_Witness ==
    /\ last.op = "decryptRide" /\ last.outcome = "ok" /\ last.ride = 1
    /\ decryptedRides[1] = [startStation |-> StationA, endStation |-> StationB,
                            timestamp |-> 17, userCategory |-> CatCommuter,
                            isRevealed |-> TRUE]
    /\ encryptedStationCount[StationA] = asEuint32(1)
    /\ ~isInitialized(encryptedStationCount[StationB])
    /\ stationList = <<StationA>>
    /\ Submitted(2) /\ ~decryptedRides[2].isRevealed

\* C16: every record whose revealed flag is set has an id that
\* submitEncryptedRide assigned (1 <= id <= rideCount), and a callback for a
\* request that named a never-submitted id neither reveals an entry nor
\* increments a counter.
C16_RevealedRecordWasSubmitted ==
    [][ /\ \A r \in RideIds : decryptedRides[r].isRevealed => Submitted(r)
        /\ (/\ last'.op = "decryptRide"
            /\ ~Submitted(requestToRideId[last'.req]))
            => (/\ decryptedRides' = decryptedRides
                /\ encryptedStationCount' = encryptedStationCount) ]_vars

\* C17: for every key k, the counter of k is the number of records that are
\* currently revealed with start station k.
C17_CounterEqualsRevealedRecords ==
    \A k \in Keys :
        (IF isInitialized(encryptedStationCount[k])
            THEN encryptedStationCount[k].val ELSE 0)
        = Cardinality({r \in RideIds : /\ decryptedRides[r].isRevealed
                                       /\ decryptedRides[r].startStation = k})

\* C18: a key is in stationList exactly when its counter is initialized, and
\* the counter of every key in stationList is at least 1.
C18_RegisteredIffInitialized ==
    \A k \in Keys :
        /\ (k \in Range(stationList)) <=> isInitialized(encryptedStationCount[k])
        /\ (k \in Range(stationList)) => (encryptedStationCount[k].val >= 1)

\* "A" is registered with two reveals, "B" is unknown
C18_Witness ==
    /\ StationA \in Range(stationList)
    /\ encryptedStationCount[StationA] = asEuint32(2)
    /\ StationB \notin Range(stationList)
    /\ ~isInitialized(encryptedStationCount[StationB])

\* C19: in every step no counter decreases, no initialized counter becomes
\* uninitialized, and stationList keeps its elements in their positions: it
\* only grows at the end.
C19_CountersAndRegistryOnlyGrow ==
    [][ /\ \A k \in Keys :
            /\ encryptedStationCount'[k].val >= encryptedStationCount[k].val
            /\ isInitialized(encryptedStationCount[k])
                => isInitialized(encryptedStationCount'[k])
        /\ Len(stationList') >= Len(stationList)
        /\ \A i \in 1..Len(stationList) : stationList'[i] = stationList[i]
      ]_vars

\* a second key was registered behind the first
C19_Witness ==
    /\ last.op = "decryptRide" /\ last.outcome = "ok"
    /\ stationList = <<StationB, StationA>>
    /\ encryptedStationCount[StationA] = asEuint32(1)
    /\ encryptedStationCount[StationB] = asEuint32(1)
    /\ decryptedRides[last.ride].startStation = StationA

\* C20: once decryptStationCount has succeeded for a request id issued by
\* requestStationCountDecryption, a further callback with the same request
\* id and a valid proof fails, whatever its cleartext.
C20_FulfilledAggregateRequestRejected ==
    (/\ last.op = "decryptStationCount"
     /\ last.outcome = "ok"
     /\ requestSelector[last.req] = "decryptStationCount")
    => \A ct \in Cleartexts : StationOutcome(last.req, ct, TRUE) # "ok"

\* C21: requestStationCountDecryption on a key whose counter is not
\* initialized reverts with "Station not found", sends nothing to the oracle
\* and registers no request; on a registered key it sends one request with
\* the decryptStationCount selector, and the value stored under the request
\* id resolves through getStationFromHash to that same key.
C21_AggregateRequestOnlyForKnownKey ==
    [][ (last'.op = "requestStationCountDecryption")
        => IF ~isInitialized(encryptedStationCount[last'.station])
           THEN /\ last'.outcome = "Station not found"
                /\ Unchanged
           ELSE /\ last'.outcome = "ok"
                /\ last'.req = counterRequest
                /\ counterRequest' = counterRequest + 1
                /\ requestSelector'[last'.req] = "decryptStationCount"
                /\ stationList' = stationList
                /\ getStationFromHash(requestToRideId'[last'.req]).found
                /\ getStationFromHash(requestToRideId'[last'.req]).station
                       = last'.station ]_vars

\* a request on the registered key "A" was accepted while "B" is unknown
C21_Witness ==
    /\ last.op = "requestStationCountDecryption" /\ last.outcome = "ok"
    /\ last.station = StationA
    /\ requestSelector[last.req] = "decryptStationCount"
    /\ getStationFromHash(requestToRideId[last.req]).station = StationA
    /\ ~isInitialized(encryptedStationCount[StationB])

\* C22: requestRideDecryption on a record that is already revealed reverts
\* with "Already decrypted": no request id is handed out, no entry of
\* requestToRideId is written and no DecryptionRequested event is emitted.
C22_RequestOnRevealedRecordRejected ==
    [][ (/\ last'.op = "requestRideDecryption"
         /\ decryptedRides[last'.ride].isRevealed)
        => (/\ last'.outcome = "Already decrypted"
            /\ counterRequest' = counterRequest
            /\ requestSelector' = requestSelector
            /\ requestToRideId' = requestToRideId
            /\ decryptionRequestedLog' = decryptionRequestedLog
            /\ Unchanged) ]_vars

\* a request on the revealed, submitted record 1 was rejected while another
\* request id was still free
C22_Witness ==
    /\ last.op = "requestRideDecryption"
    /\ last.outcome = "Already decrypted"
    /\ last.ride = 1
    /\ Submitted(1) /\ decryptedRides[1].isRevealed
    /\ counterRequest = 1
    /\ decryptionRequestedLog = <<1>>

\* C23: once submitEncryptedRide has stored the record with id i, no step -
\* a later submission, a request, a callback or a getter - changes the id or
\* any of the four ciphertext handles stored under i.
C23_EncryptedRecordImmutable ==
    [][ \A i \in RideIds :
          Submitted(i)
          => (/\ encryptedRides[i].id = i
              /\ encryptedRides'[i].id = encryptedRides[i].id
              /\ encryptedRides'[i].encryptedStartStation
                     = encryptedRides[i].encryptedStartStation
              /\ encryptedRides'[i].encryptedEndStation
                     = encryptedRides[i].encryptedEndStation
              /\ encryptedRides'[i].encryptedTimestamp
                     = encryptedRides[i].encryptedTimestamp
              /\ encryptedRides'[i].encryptedUserCategory
                     = encryptedRides[i].encryptedUserCategory) ]_vars

\* record 1 still holds the handles of the first submission after a second
\* submission, a request and a successful callback on it
C23_Witness ==
    /\ rideCount = 2
    /\ last.op = "decryptRide" /\ last.outcome = "ok" /\ last.ride = 1
    /\ rideSubmittedLog = <<1, 2>>
    /\ encryptedRides[1] =
           [id |-> 1, encryptedStartStation |-> asEuint32(1),
            encryptedEndStation |-> asEuint32(2),
            encryptedTimestamp |-> asEuint32(3),
            encryptedUserCategory |-> asEuint32(4)]
    /\ encryptedRides[2].id = 2
    /\ encryptedRides[2].encryptedStartStation = asEuint32(11)

\* C24: RideDecrypted(id) is emitted exactly in the step that reveals record
\* id, by a successful decryptRide for it and never by a rejected callback;
\* it is emitted at most once per id over the whole execution, and only
\* after a RideSubmitted(id) and a DecryptionRequested(id) event.
C24_RideDecryptedOncePerSubmittedRide ==
    [][ \A r \in RideIds :
          LET emits == rideDecryptedCount'[r] > rideDecryptedCount[r] IN
          /\ emits <=> (~decryptedRides[r].isRevealed
                        /\ decryptedRides'[r].isRevealed)
          /\ emits => (/\ last'.op = "decryptRide"
                       /\ last'.outcome = "ok"
                       /\ last'.ride = r)
          /\ (IsCallback(last') /\ last'.outcome # "ok") => ~emits
          /\ rideDecryptedCount'[r] <= 1
          /\ emits => (/\ r \in Range(rideSubmittedLog)
                       /\ r \in Range(decryptionRequestedLog)) ]_vars

\* The oracle answering request q: a decryptRide callback for an issued
\* record request with a proof that verifies and a well-formed cleartext.
DeliverValid(q) ==
    /\ Issued(q)
    /\ requestSelector[q] = "decryptRide"
    /\ \E ct \in Cleartexts : WellFormed(ct) /\ decryptRide(q, ct, TRUE)

\* The contract with an oracle that eventually answers every pending
\* request.
SpecLive == Init /\ [][Next]_vars /\ \A q \in ReqIds : WF_vars(DeliverValid(q))

\* C25: with an oracle that eventually delivers a valid callback for every
\* pending request, every submitted record for which requestRideDecryption
\* was accepted is eventually revealed.
C25_RequestedRideEventuallyRevealed ==
    \A r \in 1..MaxRides :
        (/\ Submitted(r)
         /\ \E q \in ReqIds : /\ Issued(q)
                              /\ requestSelector[q] = "decryptRide"
                              /\ requestToRideId[q] = r)
        ~> decryptedRides[r].isRevealed

\* record 2 was requested after record 1 and has been revealed by its
\* callback
C25_Witness ==
    /\ last.op = "decryptRide" /\ last.outcome = "ok" /\ last.ride = 2
    /\ Submitted(2) /\ decryptedRides[2].isRevealed
    /\ requestToRideId[1] = 2 /\ requestSelector[1] = "decryptRide"
    /\ requestToRideId[0] = 1
    /\ decryptedRides[1].isRevealed

\* C26: requestRideDecryption is accepted only from the party authorized for
\* the record, the rider who submitted it: a request from any other caller
\* is rejected, hands out no request id and registers no pending request.
C26_OnlyRiderMayRequest ==
    [][ \A sender \in Callers, rideId \in RideIdArgs :
          (/\ sender # Rider
           /\ Submitted(rideId)
           /\ ~decryptedRides[rideId].isRevealed
           /\ requestRideDecryption(sender, rideId))
          => (/\ last'.outcome # "ok"
              /\ counterRequest' = counterRequest
              /\ requestToRideId' = requestToRideId
              /\ decryptionRequestedLog' = decryptionRequestedLog) ]_vars

====
